---- MODULE Spec2Model ----
(***************************************************************************)
(* A model of alias_sample.go: Vose's construction of the alias tables     *)
(* (InitWithSeed) and the O(1) draw (AliasSampler.Next).                   *)
(*                                                                         *)
(* Numbers.  A float64 is modelled as a pair <<num, den>>: a reduced       *)
(* fraction with den > 0, or one of the IEEE special values <<1, 0>>       *)
(* (+Inf), <<-1, 0>> (-Inf), <<0, 0>> (NaN), which is what the division by *)
(* a zero total produces.  Finite arithmetic is exact (no rounding): the   *)
(* model is the code "in the mathematical specification of the algorithm", *)
(* in the words of the comment at alias_sample.go:97.                      *)
(*                                                                         *)
(* Arrays are 0-based functions; a deque is a sequence whose back is its   *)
(* last element.                                                           *)
(***************************************************************************)
EXTENDS Integers, Sequences, FiniteSets, TLC

\* ---------------------------------------------------------------- bounds
MaxN == 3          \* longest weight vector
MaxWeight == 3     \* weights are the float64 of -1 .. MaxWeight
MaxSeed == 1       \* explicit seeds are 0 .. MaxSeed
MaxGlobal == 0     \* the process-wide source starts in 0 .. MaxGlobal
MaxDraws == 2      \* calls of Next per sampler
PairMaxN == 2      \* as MaxN, in the two-sampler specification
PairMaxWeight == 2 \* as MaxWeight, in the two-sampler specification
MaxScale == 2      \* weights are scaled by c in 1 .. MaxScale

VARIABLES
    pc,           \* where the one call of Init/InitWithSeed stands
    probs,        \* its argument
    seed,         \* its seed; AliasSampler.seed once returned
    rand,         \* state of the generator made at line 55; AliasSampler.rand
    probs2,       \* the normalised working copy
    probability,  \* the probability table
    alias,        \* the alias table
    small, large, \* the two worklists
    sampler,      \* the pointer returned: "unset", "nil" or "ptr"
    err,          \* the error returned: "nil" or "SampleError"
    assigned,     \* ghost: indices whose probability entry has been written
    iters,        \* ghost: iterations of the pairing loop so far
    calls,        \* ghost: calls of Next so far
    column,       \* the column the last call of Next inspected
    ret,          \* the value the last call of Next returned
    globalRand,   \* state of math/rand's process-wide source
    sa, sb,       \* two-sampler specification: the two samplers
    da, db        \* two-sampler specification: what each has drawn

vars == <<pc, probs, seed, rand, probs2, probability, alias, small, large,
          sampler, err, assigned, iters, calls, column, ret, globalRand,
          sa, sb, da, db>>

\* ---------------------------------------------------------------- float64
Abs(x) == IF x < 0 THEN -x ELSE x

Sign(x) == IF x > 0 THEN 1 ELSE IF x < 0 THEN -1 ELSE 0

RECURSIVE GCD(_, _)
GCD(a, b) == IF b = 0 THEN a ELSE GCD(b, a % b)

\* The float64 with value n/d: reduced, or a special value when d = 0.
Frac(n, d) ==
    IF d = 0 THEN <<Sign(n), 0>>
    ELSE LET g == GCD(Abs(n), Abs(d))
         IN  <<(Sign(d) * n) \div g, Abs(d) \div g>>

NaN == <<0, 0>>
Zero == <<0, 1>>
One == <<1, 1>>
IsNaN(x) == x = NaN
IsFinite(x) == x[2] # 0
FromInt(i) == <<i, 1>>

FMul(x, y) == Frac(x[1] * y[1], x[2] * y[2])

FDiv(x, y) ==
    IF IsNaN(x) \/ IsNaN(y) THEN NaN
    ELSE IF ~IsFinite(y) THEN (IF IsFinite(x) THEN Zero ELSE NaN)
    ELSE IF y[1] = 0 THEN <<Sign(x[1]), 0>>
    ELSE IF ~IsFinite(x) THEN <<Sign(x[1]) * Sign(y[1]), 0>>
    ELSE Frac(x[1] * y[2], x[2] * y[1])

FAdd(x, y) ==
    IF ~IsFinite(x) /\ ~IsFinite(y) THEN (IF x = y THEN x ELSE NaN)
    ELSE Frac(x[1] * y[2] + y[1] * x[2], x[2] * y[2])

FNeg(x) == <<-x[1], x[2]>>

FSub(x, y) == FAdd(x, FNeg(y))

\* x >= y and x < y; both false when an operand is NaN.
FGeq(x, y) ==
    IF IsNaN(x) \/ IsNaN(y) THEN FALSE
    ELSE IF x = y THEN TRUE
    ELSE IF ~IsFinite(x) THEN x[1] > 0
    ELSE IF ~IsFinite(y) THEN y[1] < 0
    ELSE x[1] * y[2] >= y[1] * x[2]

FLt(x, y) == ~IsNaN(x) /\ ~IsNaN(y) /\ ~FGeq(x, y)

\* ---------------------------------------------------------------- math/rand
\* The generator is a full-period linear congruential generator: its state
\* is its last output, a draw advances it.
RandMod == 16

Advance(s) == (5 * s + 3) % RandMod

\* Mutant: the seed is ignored and the generator starts where the
\* process-wide source stands.
NewSourceUnseeded(sd) == globalRand

NewSource(sd) == sd % RandMod

\* r.Intn(n) and r.Float64() as functions of the state they leave behind.
Intn(s, n) == s % n

Float64(s) == Frac(s, RandMod)

\* ---------------------------------------------------------------- arrays
Len0(a) == Cardinality(DOMAIN a)

MakeArray(n, v) == [i \in 0 .. n - 1 |-> v]

Back(q) == q[Len(q)]

PopBack(q) == SubSeq(q, 1, Len(q) - 1)

PushBack(q, x) == Append(q, x)

RECURSIVE SumTo(_, _)
SumTo(a, n) == IF n = 0 THEN Zero ELSE FAdd(SumTo(a, n - 1), a[n - 1])

\* ---------------------------------------------------------------- InitWithSeed
\* Mutant: a single weight is rejected too.
EmptyInputOrSingle(p) == Len0(p) <= 1

EmptyInput(p) == Len0(p) = 0

\* Mutant: the copy is divided by the number of weights, not by their total.
NormalizeByCount(p) ==
    [i \in DOMAIN p |-> FDiv(p[i], FromInt(Len0(p)))]

\* lines 64-74: copy, total, divide.
Normalize(p) ==
    LET tot == SumTo(p, Len0(p))
    IN  [i \in DOMAIN p |-> FDiv(p[i], tot)]

Average(n) == FDiv(One, FromInt(n))

\* Mutant: a weight equal to the average goes to the small list.
IsLargeStrict(x, n) == FLt(FDiv(One, FromInt(n)), x)

IsLarge(x, n) == FGeq(x, Average(n))

\* lines 86-95: the worklists after indices 0 .. k-1 have been placed.
RECURSIVE Populate(_, _)
Populate(p2, k) ==
    IF k = 0 THEN [small |-> << >>, large |-> << >>]
    ELSE LET q == Populate(p2, k - 1)
         IN  IF IsLarge(p2[k - 1], Len0(p2))
             THEN [q EXCEPT !.large = PushBack(@, k - 1)]
             ELSE [q EXCEPT !.small = PushBack(@, k - 1)]

\* lines 76-95: the locals when the pairing loop is first reached.
BuildStart(p) ==
    LET p2 == Normalize(p)
        q == Populate(p2, Len0(p))
    IN  [probs2 |-> p2,
         probability |-> MakeArray(Len0(p), Zero),
         alias |-> MakeArray(Len0(p), 0),
         small |-> q.small,
         large |-> q.large]

LoopCond(st) == Len(st.small) # 0 /\ Len(st.large) # 0

\* Mutant: the average is not taken off the larger weight.
PairIterationNoSubtract(st) ==
    LET n == Len0(st.probs2)
        less == Back(st.small)
        more == Back(st.large)
        small1 == PopBack(st.small)
        large1 == PopBack(st.large)
        pm == FAdd(st.probs2[more], st.probs2[less])
    IN  [probs2 |-> [st.probs2 EXCEPT ![more] = pm],
         probability |-> [st.probability EXCEPT
                              ![less] = FMul(st.probs2[less], FromInt(n))],
         alias |-> [st.alias EXCEPT ![less] = more],
         small |-> IF FGeq(pm, FDiv(One, FromInt(n)))
                   THEN small1 ELSE PushBack(small1, more),
         large |-> IF FGeq(pm, FDiv(One, FromInt(n)))
                   THEN PushBack(large1, more) ELSE large1]

\* Mutant: the cutoff of the small index is computed from the large one.
PairIterationWrongIndex(st) ==
    LET n == Len0(st.probs2)
        less == Back(st.small)
        more == Back(st.large)
        small1 == PopBack(st.small)
        large1 == PopBack(st.large)
        pm == FSub(FAdd(st.probs2[more], st.probs2[less]),
                   FDiv(One, FromInt(n)))
    IN  [probs2 |-> [st.probs2 EXCEPT ![more] = pm],
         probability |-> [st.probability EXCEPT
                              ![less] = FMul(st.probs2[more], FromInt(n))],
         alias |-> [st.alias EXCEPT ![less] = more],
         small |-> IF FGeq(pm, FDiv(One, FromInt(n)))
                   THEN small1 ELSE PushBack(small1, more),
         large |-> IF FGeq(pm, FDiv(One, FromInt(n)))
                   THEN PushBack(large1, more) ELSE large1]

\* Mutant: the small index is read with Back, not PopBack, and stays on its
\* list.
PairIterationPeek(st) ==
    LET n == Len0(st.probs2)
        less == Back(st.small)
        more == Back(st.large)
        small1 == st.small
        large1 == PopBack(st.large)
        pm == FSub(FAdd(st.probs2[more], st.probs2[less]),
                   FDiv(One, FromInt(n)))
    IN  [probs2 |-> [st.probs2 EXCEPT ![more] = pm],
         probability |-> [st.probability EXCEPT
                              ![less] = FMul(st.probs2[less], FromInt(n))],
         alias |-> [st.alias EXCEPT ![less] = more],
         small |-> IF FGeq(pm, FDiv(One, FromInt(n)))
                   THEN small1 ELSE PushBack(small1, more),
         large |-> IF FGeq(pm, FDiv(One, FromInt(n)))
                   THEN PushBack(large1, more) ELSE large1]

\* lines 105-126: one iteration of the pairing loop.
PairIteration(st) ==
    LET n == Len0(st.probs2)
        less == Back(st.small)
        more == Back(st.large)
        small1 == PopBack(st.small)
        large1 == PopBack(st.large)
        pm == FSub(FAdd(st.probs2[more], st.probs2[less]), Average(n))
    IN  [probs2 |-> [st.probs2 EXCEPT ![more] = pm],
         probability |-> [st.probability EXCEPT
                              ![less] = FMul(st.probs2[less], FromInt(n))],
         alias |-> [st.alias EXCEPT ![less] = more],
         small |-> IF IsLarge(pm, n) THEN small1 ELSE PushBack(small1, more),
         large |-> IF IsLarge(pm, n) THEN PushBack(large1, more) ELSE large1]

\* lines 134-136 and 138-140: one iteration of a drain loop.
DrainSmall(st) ==
    [st EXCEPT !.probability[Back(st.small)] = One, !.small = PopBack(@)]

DrainLarge(st) ==
    [st EXCEPT !.probability[Back(st.large)] = One, !.large = PopBack(@)]

\* lines 103-140 run to completion.
RECURSIVE RunPairs(_)
RunPairs(st) == IF LoopCond(st) THEN RunPairs(PairIteration(st)) ELSE st

RECURSIVE RunDrainSmall(_)
RunDrainSmall(st) ==
    IF Len(st.small) # 0 THEN RunDrainSmall(DrainSmall(st)) ELSE st

RECURSIVE RunDrainLarge(_)
RunDrainLarge(st) ==
    IF Len(st.large) # 0 THEN RunDrainLarge(DrainLarge(st)) ELSE st

\* lines 53-148 as a function of the arguments: the sampler and the error
\* returned.  probs is kept beside the sampler's fields for reference.
Construct(p, sd) ==
    IF EmptyInput(p)
    THEN [st |-> "nil", err |-> "SampleError", probs |-> p, seed |-> sd]
    ELSE LET st == RunDrainLarge(RunDrainSmall(RunPairs(BuildStart(p))))
         IN  [st |-> "ptr", err |-> "nil", probs |-> p,
              seed |-> sd, rand |-> NewSource(sd),
              probability |-> st.probability, alias |-> st.alias]

Locals == [probs2 |-> probs2, probability |-> probability, alias |-> alias,
           small |-> small, large |-> large]

SetLocals(st) ==
    /\ probs2' = st.probs2
    /\ probability' = st.probability
    /\ alias' = st.alias
    /\ small' = st.small
    /\ large' = st.large

\* ---------------------------------------------------------------- inputs
\* The weights offered to the constructors: the float64 of small integers.
Floats(lo, hi) == {FromInt(w) : w \in lo .. hi}

Weights == Floats(-1, MaxWeight)

Vectors(maxn, ws) == UNION {[0 .. n - 1 -> ws] : n \in 0 .. maxn}

Seeds == 0 .. MaxSeed

Empty == << >>

NoSampler == [st |-> "none"]

PairIdle ==
    /\ sa = NoSampler /\ sb = NoSampler /\ da = << >> /\ db = << >>

PairVars == <<sa, sb, da, db>>

CallIdle ==
    /\ pc = "start"
    /\ probs = Empty /\ seed = 0 /\ rand = 0
    /\ probs2 = Empty /\ probability = Empty /\ alias = Empty
    /\ small = << >> /\ large = << >>
    /\ sampler = "unset" /\ err = "nil"
    /\ assigned = {} /\ iters = 0 /\ calls = 0 /\ column = 0 /\ ret = 0

CallVars == <<pc, probs, seed, rand, probs2, probability, alias, small, large,
              sampler, err, assigned, iters, calls, column, ret>>

Init ==
    /\ CallIdle
    /\ globalRand \in 0 .. MaxGlobal
    /\ PairIdle

\* ---------------------------------------------------------------- one call
\* lines 53-95: entry of InitWithSeed, up to the pairing loop or the error
\* return.
Enter(p, sd) ==
    /\ probs' = p
    /\ seed' = sd
    /\ rand' = NewSource(sd)
    /\ IF EmptyInput(p)
       THEN /\ pc' = "done"
            /\ sampler' = "nil"
            /\ err' = "SampleError"
            /\ UNCHANGED <<probs2, probability, alias, small, large>>
       ELSE /\ pc' = "pair"
            /\ UNCHANGED <<sampler, err>>
            /\ SetLocals(BuildStart(p))
    /\ UNCHANGED <<assigned, iters, calls, column, ret>>

InitWithSeed ==
    /\ pc = "start"
    /\ \E p \in Vectors(MaxN, Weights), sd \in Seeds :
           /\ Enter(p, sd)
           /\ UNCHANGED <<globalRand, PairVars>>

\* lines 47-51: the seed is drawn from the process-wide source.
InitCall ==
    /\ pc = "start"
    /\ \E p \in Vectors(MaxN, Weights) :
           /\ globalRand' = Advance(globalRand)
           /\ Enter(p, Advance(globalRand))
           /\ UNCHANGED PairVars

\* line 103 with lines 105-126.
Pair ==
    /\ pc = "pair"
    /\ LoopCond(Locals)
    /\ SetLocals(PairIteration(Locals))
    /\ assigned' = assigned \cup {Back(small)}
    /\ iters' = iters + 1
    /\ UNCHANGED <<pc, probs, seed, rand, sampler, err, calls, column, ret,
                   globalRand, PairVars>>

\* line 103: the loop condition fails.
PairExit ==
    /\ pc = "pair"
    /\ ~LoopCond(Locals)
    /\ pc' = "drainSmall"
    /\ UNCHANGED <<probs, seed, rand, probs2, probability, alias, small, large,
                   sampler, err, assigned, iters, calls, column, ret,
                   globalRand, PairVars>>

\* lines 134-136.
DrainSmallStep ==
    /\ pc = "drainSmall"
    /\ Len(small) # 0
    /\ SetLocals(DrainSmall(Locals))
    /\ assigned' = assigned \cup {Back(small)}
    /\ UNCHANGED <<pc, probs, seed, rand, sampler, err, iters, calls, column,
                   ret, globalRand, PairVars>>

\* line 134: the loop condition fails.
DrainSmallExit ==
    /\ pc = "drainSmall"
    /\ Len(small) = 0
    /\ pc' = "drainLarge"
    /\ UNCHANGED <<probs, seed, rand, probs2, probability, alias, small, large,
                   sampler, err, assigned, iters, calls, column, ret,
                   globalRand, PairVars>>

\* lines 138-140.
DrainLargeStep ==
    /\ pc = "drainLarge"
    /\ Len(large) # 0
    /\ SetLocals(DrainLarge(Locals))
    /\ assigned' = assigned \cup {Back(large)}
    /\ UNCHANGED <<pc, probs, seed, rand, sampler, err, iters, calls, column,
                   ret, globalRand, PairVars>>

\* line 138: the loop condition fails; lines 142-147.
Return ==
    /\ pc = "drainLarge"
    /\ Len(large) = 0
    /\ pc' = "done"
    /\ sampler' = "ptr"
    /\ err' = "nil"
    /\ UNCHANGED <<probs, seed, rand, probs2, probability, alias, small, large,
                   assigned, iters, calls, column, ret, globalRand, PairVars>>

Building == pc \in {"pair", "drainSmall", "drainLarge"}

Build ==
    \/ Pair
    \/ PairExit
    \/ DrainSmallStep
    \/ DrainSmallExit
    \/ DrainLargeStep
    \/ Return

\* ---------------------------------------------------------------- Next
\* Mutant: the alias is taken for a 1-based index.
OutcomeOneBased(col, coinToss, al) == IF coinToss THEN col ELSE al[col] + 1

\* lines 157-162.
Outcome(col, coinToss, al) == IF coinToss THEN col ELSE al[col]

\* Mutant: a column that has been inspected is used up.
DrawUsingUp(s) ==
    LET r1 == Advance(s.rand)
        col == Intn(r1, Len0(s.probability))
        r2 == Advance(r1)
        coinToss == FLt(Float64(r2), s.probability[col])
    IN  [ret |-> IF coinToss THEN col ELSE s.alias[col],
         column |-> col,
         s |-> [s EXCEPT !.rand = r2, !.probability[col] = Zero]]

\* lines 150-163 on a sampler whose fields are s: the value returned, the
\* column inspected, and the sampler's fields after the call.
Draw(s) ==
    LET r1 == Advance(s.rand)
        col == Intn(r1, Len0(s.probability))
        r2 == Advance(r1)
        coinToss == FLt(Float64(r2), s.probability[col])
    IN  [ret |-> Outcome(col, coinToss, s.alias),
         column |-> col,
         s |-> [s EXCEPT !.rand = r2]]

Fields == [seed |-> seed, rand |-> rand, probability |-> probability,
           alias |-> alias]

Next ==
    /\ pc = "done"
    /\ sampler = "ptr"
    /\ calls < MaxDraws
    /\ LET d == Draw(Fields)
       IN  /\ ret' = d.ret
           /\ column' = d.column
           /\ seed' = d.s.seed
           /\ rand' = d.s.rand
           /\ probability' = d.s.probability
           /\ alias' = d.s.alias
    /\ calls' = calls + 1
    /\ UNCHANGED <<pc, probs, probs2, small, large, sampler, err, assigned,
                   iters, globalRand, PairVars>>

NextState ==
    \/ InitWithSeed
    \/ InitCall
    \/ Pair
    \/ PairExit
    \/ DrainSmallStep
    \/ DrainSmallExit
    \/ DrainLargeStep
    \/ Return
    \/ Next

Spec == Init /\ [][NextState]_vars


\* ---------------------------------------------------------------- two samplers
\* A program that builds a sampler, builds a second one from the same
\* weights, and draws from both in any order.
PairWeights == Floats(-1, PairMaxWeight)

FirstInitWithSeed ==
    /\ sa.st = "none"
    /\ \E p \in Vectors(PairMaxN, PairWeights), sd \in Seeds :
           sa' = Construct(p, sd)
    /\ UNCHANGED <<CallVars, globalRand, sb, da, db>>

FirstInit ==
    /\ sa.st = "none"
    /\ \E p \in Vectors(PairMaxN, PairWeights) :
           sa' = Construct(p, Advance(globalRand))
    /\ globalRand' = Advance(globalRand)
    /\ UNCHANGED <<CallVars, sb, da, db>>

\* The second sampler is seeded with any seed, the first one's included.
SecondInitWithSeed ==
    /\ sa.st # "none"
    /\ sb.st = "none"
    /\ \E sd \in Seeds \cup {sa.seed} : sb' = Construct(sa.probs, sd)
    /\ UNCHANGED <<CallVars, globalRand, sa, da, db>>

FirstNext ==
    /\ sa.st = "ptr"
    /\ Len(da) < MaxDraws
    /\ sa' = Draw(sa).s
    /\ da' = Append(da, Draw(sa).ret)
    /\ UNCHANGED <<CallVars, globalRand, sb, db>>

SecondNext ==
    /\ sb.st = "ptr"
    /\ Len(db) < MaxDraws
    /\ sb' = Draw(sb).s
    /\ db' = Append(db, Draw(sb).ret)
    /\ UNCHANGED <<CallVars, globalRand, sa, da>>

PairNextState ==
    \/ FirstInitWithSeed
    \/ FirstInit
    \/ SecondInitWithSeed
    \/ FirstNext
    \/ SecondNext

PairSpec == Init /\ [][PairNextState]_vars


\* ---------------------------------------------------------------- properties
Total(p) == SumTo(p, Len0(p))

\* Non-negative weights with a positive sum.
Valid(p) ==
    /\ Len0(p) >= 1
    /\ \A i \in DOMAIN p : FGeq(p[i], Zero)
    /\ FLt(Zero, Total(p))

\* Sum over the columns i < n whose alias is k of 1 - prob[i].
RECURSIVE AliasMass(_, _, _, _)
AliasMass(prob, al, k, n) ==
    IF n = 0 THEN Zero
    ELSE FAdd(AliasMass(prob, al, k, n - 1),
              IF al[n - 1] = k THEN FSub(One, prob[n - 1]) ELSE Zero)

\* The probability that a draw from the tables returns k.
Mass(prob, al, k) ==
    FDiv(FAdd(prob[k], AliasMass(prob, al, k, Len0(prob))),
         FromInt(Len0(prob)))

InUnit(x) == FGeq(x, Zero) /\ FGeq(One, x)

Partial(x) == FLt(Zero, x) /\ FLt(x, One)

Range(q) == {q[i] : i \in 1 .. Len(q)}

\* C1: for valid weights the tables returned by InitWithSeed route to every
\* outcome k exactly its normalised weight:
\* (probability[k] + sum over alias[i] = k of (1 - probability[i])) / n
\* = weights[k] / sum(weights).
C1_NormalizedMass ==
    (pc = "done" /\ Valid(probs)) =>
        \A k \in DOMAIN probs :
            Mass(probability, alias, k) = FDiv(probs[k], Total(probs))

\* Witness of C1: a returned table of three columns, two of them split
\* between the column and its alias.
C1_Witness ==
    /\ pc = "done"
    /\ Valid(probs)
    /\ Len0(probs) = 3
    /\ \E i, j \in DOMAIN probs :
           /\ i # j
           /\ Partial(probability[i])
           /\ Partial(probability[j])
           /\ alias[i] # alias[j]

\* C2: every call of Next on a constructed sampler returns an index in
\* 0 .. n-1, whatever state the generator is in, and every alias entry is
\* such an index.
C2_RangeSafety ==
    (pc = "done" /\ sampler = "ptr") =>
        /\ Len0(probability) >= 1
        /\ \A i \in DOMAIN alias : alias[i] \in 0 .. Len0(probs) - 1
        /\ calls > 0 => ret \in 0 .. Len0(probs) - 1
        /\ \A r \in 0 .. RandMod - 1 :
               Draw([Fields EXCEPT !.rand = r]).ret \in 0 .. Len0(probs) - 1

\* Witness of C2: after several calls, a call whose coin toss failed returned
\* the alias of the last column.
C2_Witness ==
    /\ pc = "done"
    /\ calls = MaxDraws
    /\ ret # column
    /\ ret = Len0(probs) - 1
    /\ Len0(probs) = MaxN

\* C3: with no weights the constructors return an error and no sampler; with
\* one weight or more, a sampler and no error.
C3_EmptyInput ==
    pc = "done" =>
        /\ Len0(probs) = 0 => (err = "SampleError" /\ sampler = "nil")
        /\ Len0(probs) >= 1 => (err = "nil" /\ sampler = "ptr")

\* Witness of C3: a call with no weights has returned its error.
C3_Witness ==
    /\ pc = "done"
    /\ Len0(probs) = 0
    /\ err = "SampleError"
    /\ seed = globalRand

\* C4: construction from a negative weight or from weights whose sum is zero
\* fails with InvalidWeightError and returns no sampler.
C4_InvalidWeightRejected ==
    (pc = "done" /\ Len0(probs) >= 1 /\ ~Valid(probs)) =>
        (err = "InvalidWeightError" /\ sampler = "nil")

\* C5: two samplers built from the same weights and the same seed have the
\* same tables and agree on their k-th draw, for every k.
C5_Determinism ==
    (sa.st = "ptr" /\ sb.st = "ptr" /\ sa.probs = sb.probs
        /\ sa.seed = sb.seed) =>
        /\ sa.probability = sb.probability
        /\ sa.alias = sb.alias
        /\ \A k \in 1 .. MaxDraws :
               (k <= Len(da) /\ k <= Len(db)) => da[k] = db[k]

\* Witness of C5: both samplers, same seed, have drawn twice, and the first
\* has drawn ahead of the second before the second caught up.
C5_Witness ==
    /\ sa.st = "ptr" /\ sb.st = "ptr"
    /\ sa.seed = sb.seed
    /\ Len(da) >= 2 /\ Len(db) >= 2
    /\ da[1] # da[2]
    /\ db = da

\* C6: for valid weights every entry of the probability table is in [0, 1],
\* and every index has had its entry written, by a pairing step or a drain.
C6_ProbabilityInUnit ==
    (pc = "done" /\ Valid(probs)) =>
        /\ \A i \in DOMAIN probability : InUnit(probability[i])
        /\ assigned = DOMAIN probs

\* Witness of C6: a returned table with an entry written by a pairing step
\* and an entry written by the drain.
C6_Witness ==
    /\ pc = "done"
    /\ Valid(probs)
    /\ iters >= 1
    /\ \E i \in DOMAIN probability : Partial(probability[i])
    /\ \E i \in DOMAIN probability : probability[i] = One
    /\ \E i \in DOMAIN probability : probability[i] = Zero

Scale(p, c) == [i \in DOMAIN p |-> FMul(p[i], c)]

Scales == {Frac(a, b) : a, b \in 1 .. MaxScale}

OneOneTwo == (0 :> FromInt(1)) @@ (1 :> FromInt(1)) @@ (2 :> FromInt(2))

C8_NextFrame ==
    [][pc = "done" =>
          UNCHANGED <<probability, alias, seed, sampler, err, probs, probs2,
                      small, large, pc, globalRand>>]_vars

\* Witness of C8: calls of Next have moved the generator.
C8_Witness ==
    /\ pc = "done"
    /\ calls = MaxDraws
    /\ rand # NewSource(seed)
    /\ \E i \in DOMAIN probability : Partial(probability[i])

\* C9: for valid weights the pairing loop exits with small empty and large
\* non-empty, every index left on large having the residual weight 1/n.
C9_SmallExhaustedFirst ==
    (pc = "drainSmall" /\ Valid(probs)) =>
        /\ Len(small) = 0
        /\ Len(large) # 0
        /\ \A i \in Range(large) : probs2[i] = Average(Len0(probs))

\* Witness of C9: the loop has exited after two iterations or more.
C9_Witness ==
    /\ pc = "drainSmall"
    /\ Valid(probs)
    /\ iters >= 2
    /\ Len(large) = 1

NoRepeats(q) == Cardinality(Range(q)) = Len(q)

WorklistsSound ==
    /\ NoRepeats(small)
    /\ NoRepeats(large)
    /\ Range(small) \cap Range(large) = {}
    /\ Range(small) \cup Range(large) \subseteq DOMAIN probs

\* One iteration: the backs of both lists are removed and one index, the
\* large one, is pushed back on one list.
PairStepShape ==
    (iters' = iters + 1) =>
        /\ Len(small') + Len(large') = Len(small) + Len(large) - 1
        /\ Range(small') \cup Range(large') =
               (Range(small) \cup Range(large)) \ {Back(small)}
        /\ Back(large) \in Range(small') \cup Range(large')

C10_Safety ==
    /\ WorklistsSound
    /\ Len0(probs) >= 1 => iters <= Len0(probs) - 1
    /\ pc = "done" => (Len(small) = 0 /\ Len(large) = 0)

\* What is left to do: the indices on the worklists, then the loops to leave.
Rank ==
    3 * (Len(small) + Len(large))
        + (CASE pc = "pair" -> 3
             [] pc = "drainSmall" -> 2
             [] pc = "drainLarge" -> 1
             [] OTHER -> 0)

\* C10: construction terminates: an iteration of the pairing loop takes one
\* index off the worklists, no index is on both lists or twice on one, the
\* loop runs at most n-1 times, every step of the construction brings its
\* end nearer, and the drains leave both lists empty.
C10_Termination ==
    /\ C10_Safety
    /\ [][C10_Safety' /\ PairStepShape /\ (Building => Rank' < Rank)]_vars

\* Witness of C10: a call on MaxN weights has returned after MaxN - 1
\* iterations.
C10_Witness ==
    /\ pc = "done"
    /\ Len0(probs) = MaxN
    /\ iters = MaxN - 1
    /\ sampler = "ptr"

====
